---- MODULE Spec2Model ----
(***************************************************************************)
(* Device discovery of pkg/mount/mount.go: mounter.GetDevicePath,          *)
(* mounter.getDevicePathBySerialID, mounter.probeVolume and                *)
(* diskUUIDToSerial.                                                       *)
(*                                                                         *)
(* Go strings are modelled as sequences of one-character strings, one      *)
(* element per byte ("" is << >>).  The retry loop is the loop of          *)
(* wait.ExponentialBackoffWithContext (k8s.io/apimachinery) that           *)
(* GetDevicePath calls with its condition closure; the file system, the    *)
(* context and the SCSI-host directory are the environment.                *)
(***************************************************************************)
EXTENDS Integers, Sequences, FiniteSets, TLC

(***************************************************************************)
(* Bounds of the model.                                                    *)
(***************************************************************************)
\* largest number of entries os.ReadDir lists under /sys/class/scsi_host/
MaxHosts == 2
\* longest generated input of diskUUIDToSerial
MaxUUIDLen == 28
\* largest distance between two hyphens of a generated input
MaxGap == 5

(***************************************************************************)
(* Program constants.                                                      *)
(***************************************************************************)
\* backoff.Steps
BackoffSteps == 15
\* backoff.Duration, 1 * time.Second, as <<milliseconds, nanoseconds>>
BackoffDuration == [ms |-> 1000, ns |-> 0]
\* the length diskUUIDToSerial truncates to
SerialLen == 20

diskIDPath == <<"/", "d", "e", "v", "/", "d", "i", "s", "k", "/", "b", "y", "-", "i", "d">>

sourcePathPrefixes ==
    << <<"v", "i", "r", "t", "i", "o", "-">>,
       <<"s", "c", "s", "i", "-">>,
       <<"s", "c", "s", "i", "-", "0", "Q", "E", "M", "U", "_", "Q", "E", "M", "U", "_",
         "H", "A", "R", "D", "D", "I", "S", "K", "_">> >>

(***************************************************************************)
(* strings.ReplaceAll(s, old, "") for a one-byte old: every occurrence is  *)
(* removed, left to right.                                                 *)
(***************************************************************************)
RECURSIVE ReplaceAll(_, _)
ReplaceAll(s, old) ==
    IF s = << >> THEN << >>
    ELSE IF Head(s) = old THEN ReplaceAll(Tail(s), old)
    ELSE <<Head(s)>> \o ReplaceAll(Tail(s), old)

\* strings.Replace(s, old, "", 1): only the first occurrence is removed
RECURSIVE ReplaceFirst(_, _)
ReplaceFirst(s, old) ==
    IF s = << >> THEN << >>
    ELSE IF Head(s) = old THEN Tail(s)
    ELSE <<Head(s)>> \o ReplaceFirst(Tail(s), old)

diskUUIDToSerialKeepsHyphens(uuid) ==
    LET uuidWithoutHyphen == ReplaceFirst(uuid, "-")
    IN  IF Len(uuidWithoutHyphen) < SerialLen
        THEN uuidWithoutHyphen
        ELSE SubSeq(uuidWithoutHyphen, 1, SerialLen)

diskUUIDToSerialShort(uuid) ==
    LET uuidWithoutHyphen == ReplaceAll(uuid, "-")
    IN  IF Len(uuidWithoutHyphen) < SerialLen
        THEN uuidWithoutHyphen
        ELSE SubSeq(uuidWithoutHyphen, 1, SerialLen - 1)

diskUUIDToSerial(uuid) ==
    LET uuidWithoutHyphen == ReplaceAll(uuid, "-")
    IN  IF Len(uuidWithoutHyphen) < SerialLen
        THEN uuidWithoutHyphen
        ELSE SubSeq(uuidWithoutHyphen, 1, SerialLen)

(***************************************************************************)
(* filepath.Join(diskIDPath, name): the two elements are joined with a     *)
(* separator and the result is cleaned (filepath.Clean): empty and "."     *)
(* elements are dropped, a ".." element removes the element before it and  *)
(* is dropped at the root.  diskIDPath is rooted, so is the result.        *)
(***************************************************************************)
RECURSIVE SplitPath(_, _, _)
SplitPath(s, cur, acc) ==
    IF s = << >> THEN Append(acc, cur)
    ELSE IF Head(s) = "/" THEN SplitPath(Tail(s), << >>, Append(acc, cur))
    ELSE SplitPath(Tail(s), Append(cur, Head(s)), acc)

RECURSIVE CleanElems(_, _)
CleanElems(elems, stack) ==
    IF elems = << >> THEN stack
    ELSE LET e == Head(elems)
         IN  IF e = << >> \/ e = <<".">> THEN CleanElems(Tail(elems), stack)
             ELSE IF e = <<".", ".">>
                  THEN CleanElems(Tail(elems),
                                  IF stack = << >> THEN stack
                                  ELSE SubSeq(stack, 1, Len(stack) - 1))
                  ELSE CleanElems(Tail(elems), Append(stack, e))

RECURSIVE JoinElems(_)
JoinElems(elems) ==
    IF elems = << >> THEN << >>
    ELSE <<"/">> \o Head(elems) \o JoinElems(Tail(elems))

Clean(path) ==
    LET elems == CleanElems(SplitPath(path, << >>, << >>), << >>)
    IN  IF elems = << >> THEN <<"/">> ELSE JoinElems(elems)

Join(dir, name) == Clean(dir \o <<"/">> \o name)

\* source of line 96 for the prefix at position idx
Source(vol, idx) == Join(diskIDPath, sourcePathPrefixes[idx] \o diskUUIDToSerial(vol))

CandidatePaths(vol) == {Source(vol, idx) : idx \in 1..Len(sourcePathPrefixes)}

(***************************************************************************)
(* Errors.  Every error value is a record of one shape: kind names the     *)
(* error, errno the system error of an *os.PathError, arg the string the   *)
(* message quotes (the volumeID) or the path of the failed stat.           *)
(***************************************************************************)
Err(kind, errno, arg) == [kind |-> kind, errno |-> errno, arg |-> arg]

Nil == Err("nil", "", << >>)
\* wait.ErrWaitTimeout, context.Canceled, context.DeadlineExceeded
ErrWaitTimeout == Err("ErrWaitTimeout", "", << >>)
Canceled == Err("Canceled", "", << >>)
DeadlineExceeded == Err("DeadlineExceeded", "", << >>)
\* the *os.PathError of a failed os.Stat(source)
PathError(errno, source) == Err("PathError", errno, source)
\* "failed to find device for the volumeID: %q within the alloted time"
NotFoundTimeout(vol) == Err("NotFoundTimeout", "", vol)
\* "device path was empty for volumeID: %q"
EmptyResult(vol) == Err("EmptyResult", "", vol)

\* wait.Interrupted(err)
Interrupted(err) == err \in {ErrWaitTimeout, Canceled, DeadlineExceeded}

\* os.IsNotExist(err)
IsNotExist(err) == err.kind = "PathError" /\ err.errno = "ENOENT"

\* outcomes of os.Stat on one path: success, "does not exist", any other error
StatResults == {"ok", "ENOENT", "EACCES"}

\* the volume identifiers of the model: "ab-cd", a long identifier that is
\* truncated ("1234-5678-9abc-def0-1111-22"), "/../x" and "/../../x"
VolShort == <<"a", "b", "-", "c", "d">>
VolLong ==
    <<"1", "2", "3", "4", "-", "5", "6", "7", "8", "-", "9", "a", "b", "c", "-",
      "d", "e", "f", "0", "-", "1", "1", "1", "1", "-", "2", "2">>
VolDots == <<"/", ".", ".", "/", "x">>
VolEscape == <<"/", ".", ".", "/", ".", ".", "/", "x">>
VolumeIDs == {VolShort, VolLong, VolDots, VolEscape}

(***************************************************************************)
(* Backoff.Step() multiplies Duration by Factor 1.1 and truncates to whole *)
(* nanoseconds: time.Duration(float64(b.Duration) * b.Factor).  For the    *)
(* durations of this schedule that is (d * 11) \div 10, computed here on   *)
(* <<milliseconds, nanoseconds>> to stay inside the integer range.         *)
(***************************************************************************)
NextDuration(d) ==
    LET a11 == d.ms * 11
        low == (a11 % 10) * 100000 + ((d.ns * 11) \div 10)
    IN  [ms |-> (a11 \div 10) + (low \div 1000000), ns |-> low % 1000000]

VARIABLES
    volumeID,     \* argument of GetDevicePath
    ctxErr,       \* ctx.Err(): Nil until the context is cancelled or expires
    fs,           \* what os.Stat answers for each candidate path now
    pc,           \* position of the call
    steps,        \* backoff.Steps
    duration,     \* backoff.Duration
    prefixIdx,    \* position of the range loop of getDevicePathBySerialID
    condPath,     \* path returned by getDevicePathBySerialID
    condErr,      \* err returned by getDevicePathBySerialID and by the condition
    condOk,       \* the bool returned by the condition
    devicePath,   \* var devicePath of GetDevicePath
    waitErr,      \* err returned by wait.ExponentialBackoffWithContext
    retPath,      \* path returned by GetDevicePath
    retErr,       \* error returned by GetDevicePath
    scan,         \* the invocation of probeVolume that runs or has just returned
    statLog,      \* stat calls of the running or last probe, in order
    okStats,      \* paths for which a stat of this call succeeded
    seen,         \* stat outcomes observed by this call
    nProbes,      \* calls of getDevicePathBySerialID
    nStats,       \* calls of os.Stat
    nRescans,     \* completed calls of probeVolume
    nTimers,      \* backoff sleeps begun
    nSleeps,      \* backoff sleeps that ran to completion
    firstCheck,   \* did a candidate exist when the first stat was made
    probeStable,  \* fs unchanged since the running or last probe began
    uuid,         \* argument of diskUUIDToSerial
    serial,       \* result of diskUUIDToSerial
    translated,   \* has diskUUIDToSerial been applied to uuid
    parked,       \* the locals of the other call of GetDevicePath, if there is one
    running,      \* which of the calls the variables above belong to: 1 or 2
    snap          \* what the other call had when it last took a step

callVars == <<pc, steps, duration, prefixIdx, condPath, condErr, condOk, devicePath,
              waitErr, retPath, retErr, scan>>
histVars == <<statLog, okStats, seen, nProbes, nStats, nRescans, nTimers,
              nSleeps, firstCheck>>
serialVars == <<uuid, serial, translated>>
otherVars == <<parked, running, snap>>
vars == <<volumeID, ctxErr, fs, callVars, histVars, probeStable, serialVars, otherVars>>

\* no other call
NoCall == [pc |-> "none"]

\* probeVolume before it has done anything
NoScan == [listed |-> FALSE, dirErr |-> FALSE, hosts |-> 0, idx |-> 0,
           writes |-> 0, udev |-> 0, logged |-> 0]

ResolverStart ==
    /\ ctxErr = Nil
    /\ pc = "loop"
    /\ steps = BackoffSteps
    /\ duration = BackoffDuration
    /\ prefixIdx = 0
    /\ condPath = << >>
    /\ condErr = Nil
    /\ condOk = FALSE
    /\ devicePath = << >>
    /\ waitErr = Nil
    /\ retPath = << >>
    /\ retErr = Nil
    /\ scan = NoScan
    /\ statLog = << >>
    /\ okStats = {}
    /\ seen = {}
    /\ nProbes = 0
    /\ nStats = 0
    /\ nRescans = 0
    /\ nTimers = 0
    /\ nSleeps = 0
    /\ firstCheck = FALSE
    /\ probeStable = TRUE

\* the call is the only one
OneCall ==
    /\ parked = NoCall
    /\ running = 1
    /\ snap = NoCall

\* a call of GetDevicePath(ctx, volumeID) begins, on any file system state
Init ==
    /\ volumeID \in VolumeIDs
    /\ fs \in [CandidatePaths(volumeID) -> StatResults]
    /\ ResolverStart
    /\ OneCall
    /\ uuid = << >>
    /\ serial = << >>
    /\ translated = FALSE

(***************************************************************************)
(* The environment: the context is cancelled or its deadline expires, and  *)
(* devices appear, disappear or become unreadable, at any moment of the    *)
(* call.                                                                   *)
(***************************************************************************)
Cancel ==
    /\ pc # "done"
    /\ ctxErr = Nil
    /\ ctxErr' = Canceled
    /\ UNCHANGED <<volumeID, fs, callVars, histVars, probeStable, serialVars, otherVars>>

Expire ==
    /\ pc # "done"
    /\ ctxErr = Nil
    /\ ctxErr' = DeadlineExceeded
    /\ UNCHANGED <<volumeID, fs, callVars, histVars, probeStable, serialVars, otherVars>>

FsChange ==
    /\ pc # "done"
    /\ \E p \in DOMAIN fs : \E r \in StatResults \ {fs[p]} :
          fs' = [fs EXCEPT ![p] = r]
    /\ probeStable' = FALSE
    /\ parked' = IF parked = NoCall THEN parked ELSE [parked EXCEPT !.probeStable = FALSE]
    /\ UNCHANGED <<volumeID, ctxErr, callVars, histVars, serialVars, running, snap>>

(***************************************************************************)
(* wait.ExponentialBackoffWithContext, top of the loop: the loop runs      *)
(* while backoff.Steps > 0, returns ctx.Err() when ctx.Done() is closed,   *)
(* and otherwise runs the condition, which begins with                     *)
(* getDevicePathBySerialID.                                                *)
(***************************************************************************)
LoopTop ==
    /\ pc = "loop"
    /\ IF steps <= 0
       THEN /\ waitErr' = ErrWaitTimeout
            /\ pc' = "ret"
            /\ UNCHANGED <<prefixIdx, nProbes, statLog, probeStable>>
       ELSE IF ctxErr # Nil
       THEN /\ waitErr' = ctxErr
            /\ pc' = "ret"
            /\ UNCHANGED <<prefixIdx, nProbes, statLog, probeStable>>
       ELSE /\ pc' = "stat"
            /\ prefixIdx' = 1
            /\ nProbes' = nProbes + 1
            /\ statLog' = << >>
            /\ probeStable' = TRUE
            /\ UNCHANGED waitErr
    /\ UNCHANGED <<volumeID, ctxErr, fs, steps, duration, condPath, condErr,
                   condOk, devicePath, retPath, retErr, scan, okStats, seen, nStats,
                   nRescans, nTimers, nSleeps, firstCheck, serialVars, otherVars>>

\* os.Stat(source): the error it returns
Stat(source) == IF fs[source] = "ok" THEN Nil ELSE PathError(fs[source], source)

\* a probe that takes every stat error for "does not exist"
ProbeVerdictRetriesErrors(err) ==
    IF err = Nil THEN "found" ELSE "next"

\* a probe that returns the candidate whatever the stat said
ProbeVerdictUnchecked(err) ==
    IF err = Nil \/ IsNotExist(err) THEN "found" ELSE "fail"

\* lines 98-103: what one iteration of the range loop does with err
ProbeVerdict(err) ==
    IF err = Nil THEN "found"
    ELSE IF ~IsNotExist(err) THEN "fail"
    ELSE "next"

\* the range loop taken from the last prefix to the first
PrefixAtReversed(idx) == sourcePathPrefixes[Len(sourcePathPrefixes) + 1 - idx]

\* the prefix of the idx-th iteration of the range loop
PrefixAt(idx) == sourcePathPrefixes[idx]

(***************************************************************************)
(* getDevicePathBySerialID, one iteration of the range loop: the serial is *)
(* computed, the candidate is built and stat-ed; the function returns at   *)
(* the first candidate that exists or whose stat fails otherwise, and      *)
(* returns ("", nil) after the last prefix.                                *)
(***************************************************************************)
StatStep ==
    /\ pc = "stat"
    /\ LET source == Join(diskIDPath, PrefixAt(prefixIdx) \o diskUUIDToSerial(volumeID))
           err == Stat(source)
           verdict == ProbeVerdict(err)
       IN  /\ nStats' = nStats + 1
           /\ statLog' = Append(statLog, [path |-> source, res |-> fs[source]])
           /\ seen' = seen \cup {fs[source]}
           /\ okStats' = IF err = Nil THEN okStats \cup {source} ELSE okStats
           /\ firstCheck' = IF nStats = 0
                            THEN \E p \in DOMAIN fs : fs[p] = "ok"
                            ELSE firstCheck
           /\ CASE verdict = "found" ->
                     /\ condPath' = source
                     /\ condErr' = Nil
                     /\ pc' = "cond"
                     /\ UNCHANGED prefixIdx
                [] verdict = "fail" ->
                     /\ condPath' = << >>
                     /\ condErr' = err
                     /\ pc' = "cond"
                     /\ UNCHANGED prefixIdx
                [] verdict = "next" /\ prefixIdx < Len(sourcePathPrefixes) ->
                     /\ prefixIdx' = prefixIdx + 1
                     /\ UNCHANGED <<condPath, condErr, pc>>
                [] OTHER ->
                     /\ condPath' = << >>
                     /\ condErr' = Nil
                     /\ pc' = "cond"
                     /\ UNCHANGED prefixIdx
    /\ UNCHANGED <<volumeID, ctxErr, fs, steps, duration, condOk, devicePath, waitErr,
                   retPath, retErr, scan, nProbes, nRescans, nTimers, nSleeps,
                   probeStable, serialVars, otherVars>>

(***************************************************************************)
(* The condition closure, lines 70-78: an error of the probe is returned,  *)
(* a path is stored in devicePath and ends the loop, and otherwise         *)
(* probeVolume is called.                                                  *)
(***************************************************************************)
\* a condition that retries without a rescan
CondStepSkipsRescan ==
    /\ pc = "cond"
    /\ IF condErr # Nil
       THEN /\ condOk' = FALSE
            /\ UNCHANGED devicePath
       ELSE IF condPath # << >>
       THEN /\ devicePath' = condPath
            /\ condOk' = TRUE
       ELSE UNCHANGED <<devicePath, condOk>>
    /\ pc' = "check"
    /\ UNCHANGED <<volumeID, ctxErr, fs, steps, duration, prefixIdx, condPath,
                   condErr, waitErr, retPath, retErr, scan, histVars,
                   probeStable, serialVars, otherVars>>

CondStep ==
    /\ pc = "cond"
    /\ IF condErr # Nil
       THEN /\ condOk' = FALSE
            /\ pc' = "check"
            /\ UNCHANGED <<devicePath, scan>>
       ELSE IF condPath # << >>
       THEN /\ devicePath' = condPath
            /\ condOk' = TRUE
            /\ pc' = "check"
            /\ UNCHANGED scan
       ELSE /\ pc' = "readdir"
            /\ scan' = NoScan
            /\ UNCHANGED <<devicePath, condOk>>
    /\ UNCHANGED <<volumeID, ctxErr, fs, steps, duration, prefixIdx, condPath,
                   condErr, waitErr, retPath, retErr, histVars, probeStable,
                   serialVars, otherVars>>

(***************************************************************************)
(* probeVolume.  os.ReadDir either fails or lists some entries; every      *)
(* os.WriteFile and the udevadm command either succeed or fail.  A failure *)
(* is logged (logger.Error) and nothing else.                              *)
(***************************************************************************)
ProbeReadDir ==
    /\ pc = "readdir"
    /\ \/ /\ scan' = [scan EXCEPT !.listed = TRUE, !.dirErr = TRUE,
                                  !.logged = scan.logged + 1]
          /\ pc' = "udevadm"
       \/ \E n \in 0..MaxHosts :
             /\ scan' = [scan EXCEPT !.listed = TRUE, !.hosts = n]
             /\ pc' = IF n = 0 THEN "udevadm" ELSE "write"
    /\ UNCHANGED <<volumeID, ctxErr, fs, steps, duration, prefixIdx, condPath,
                   condErr, condOk, devicePath, waitErr, retPath, retErr,
                   histVars, probeStable, serialVars, otherVars>>

\* a range loop that stops at the first write that fails
AfterWriteStopsOnError(sc, ok) ==
    IF ok /\ sc.idx + 1 < sc.hosts THEN "write" ELSE "udevadm"

\* lines 115-122: the range loop goes on to the next entry, failed write or not
AfterWrite(sc, ok) ==
    IF sc.idx + 1 < sc.hosts THEN "write" ELSE "udevadm"

ProbeWrite ==
    /\ pc = "write"
    /\ \E ok \in BOOLEAN :
          /\ scan' = [scan EXCEPT !.idx = scan.idx + 1,
                                  !.writes = scan.writes + 1,
                                  !.logged = scan.logged + (IF ok THEN 0 ELSE 1)]
          /\ pc' = AfterWrite(scan, ok)
    /\ UNCHANGED <<volumeID, ctxErr, fs, steps, duration, prefixIdx, condPath,
                   condErr, condOk, devicePath, waitErr, retPath, retErr,
                   histVars, probeStable, serialVars, otherVars>>

\* a condition that returns the failure of the rescan
ConditionAfterProbeFails(sc) ==
    IF sc.logged > 0
    THEN [ok |-> FALSE, err |-> Err("RescanFailed", "", << >>)]
    ELSE [ok |-> FALSE, err |-> Nil]

\* lines 78-80: probeVolume returns nothing and the condition returns false, nil
ConditionAfterProbe(sc) == [ok |-> FALSE, err |-> Nil]

ProbeUdevadm ==
    /\ pc = "udevadm"
    /\ \E ok \in BOOLEAN :
          /\ scan' = [scan EXCEPT !.udev = scan.udev + 1,
                                  !.logged = scan.logged + (IF ok THEN 0 ELSE 1)]
          /\ condOk' = ConditionAfterProbe(scan').ok
          /\ condErr' = ConditionAfterProbe(scan').err
    /\ nRescans' = nRescans + 1
    /\ pc' = "check"
    /\ UNCHANGED <<volumeID, ctxErr, fs, steps, duration, prefixIdx, condPath,
                   devicePath, waitErr, retPath, retErr, statLog, okStats, seen,
                   nProbes, nStats, nTimers, nSleeps, firstCheck, probeStable,
                   serialVars, otherVars>>

\* a plain sleep, which no cancellation interrupts
SleepInterruptedNever(err) == FALSE

\* the select on ctx.Done() and time.After(waitBeforeRetry): the closed
\* ctx.Done() ends the wait, when the sleep would begin and while it lasts
SleepInterrupted(err) == err # Nil

(***************************************************************************)
(* wait.ExponentialBackoffWithContext after the condition: an error or a   *)
(* true condition ends the loop with that error; on the last step the loop *)
(* breaks and ErrWaitTimeout is returned; otherwise backoff.Step() takes a *)
(* step and the loop waits for the delay or for ctx.Done().                *)
(***************************************************************************)
\* a loop that only an error of the condition ends
LoopEndsOnErrorOnly(err, ok) == err # Nil

\* "err != nil || ok": the condition has ended the loop
LoopEnds(err, ok) == err # Nil \/ ok

\* a loop that waits once more after its last attempt
LastStepNever(st) == FALSE

\* a loop that gives up one attempt early
LastStepEarly(st) == st <= 2

\* "if backoff.Steps == 1 { break }": the attempt just made was the last
LastStep(st) == st = 1

WaitCheck ==
    /\ pc = "check"
    /\ IF LoopEnds(condErr, condOk)
       THEN /\ waitErr' = condErr
            /\ pc' = "ret"
            /\ UNCHANGED <<steps, duration, nTimers>>
       ELSE IF LastStep(steps)
       THEN /\ waitErr' = ErrWaitTimeout
            /\ pc' = "ret"
            /\ UNCHANGED <<steps, duration, nTimers>>
       ELSE /\ steps' = steps - 1
            /\ duration' = NextDuration(duration)
            /\ nTimers' = nTimers + 1
            /\ IF SleepInterrupted(ctxErr)
               THEN waitErr' = ctxErr /\ pc' = "ret"
               ELSE pc' = "sleep" /\ UNCHANGED waitErr
    /\ scan' = NoScan
    /\ UNCHANGED <<volumeID, ctxErr, fs, prefixIdx, condPath, condErr, condOk,
                   devicePath, retPath, retErr, statLog, okStats, seen,
                   nProbes, nStats, nRescans, nSleeps, firstCheck, probeStable,
                   serialVars, otherVars>>

\* the wait ends: ctx.Done() was closed during the sleep, or the timer fired
Wake ==
    /\ pc = "sleep"
    /\ IF SleepInterrupted(ctxErr)
       THEN /\ waitErr' = ctxErr
            /\ pc' = "ret"
            /\ UNCHANGED nSleeps
       ELSE /\ nSleeps' = nSleeps + 1
            /\ pc' = "loop"
            /\ UNCHANGED waitErr
    /\ UNCHANGED <<volumeID, ctxErr, fs, steps, duration, prefixIdx, condPath,
                   condErr, condOk, devicePath, retPath, retErr, scan, statLog,
                   okStats, seen, nProbes, nStats, nRescans, nTimers,
                   firstCheck, probeStable, serialVars, otherVars>>

\* a result that tells a cancelled context from an exhausted schedule
ResultTellsCancel(err, path, vol) ==
    IF err = ErrWaitTimeout THEN [path |-> << >>, err |-> NotFoundTimeout(vol)]
    ELSE IF Interrupted(err) THEN [path |-> << >>, err |-> err]
    ELSE IF path = << >> THEN [path |-> << >>, err |-> EmptyResult(vol)]
    ELSE [path |-> path, err |-> Nil]

\* a result without the check for an empty devicePath
ResultUnchecked(err, path, vol) ==
    IF Interrupted(err) THEN [path |-> << >>, err |-> NotFoundTimeout(vol)]
    ELSE [path |-> path, err |-> Nil]

\* lines 83-89: what GetDevicePath returns for the error of the loop
Result(err, path, vol) ==
    IF Interrupted(err) THEN [path |-> << >>, err |-> NotFoundTimeout(vol)]
    ELSE IF path = << >> THEN [path |-> << >>, err |-> EmptyResult(vol)]
    ELSE [path |-> path, err |-> Nil]

Return ==
    /\ pc = "ret"
    /\ retPath' = Result(waitErr, devicePath, volumeID).path
    /\ retErr' = Result(waitErr, devicePath, volumeID).err
    /\ pc' = "done"
    /\ UNCHANGED <<volumeID, ctxErr, fs, steps, duration, prefixIdx, condPath,
                   condErr, condOk, devicePath, waitErr, scan, histVars,
                   probeStable, serialVars, otherVars>>

Next ==
    \/ Cancel
    \/ Expire
    \/ FsChange
    \/ LoopTop
    \/ StatStep
    \/ CondStep
    \/ ProbeReadDir
    \/ ProbeWrite
    \/ ProbeUdevadm
    \/ WaitCheck
    \/ Wake
    \/ Return

Spec == Init /\ [][Next]_vars

\* the steps of the call itself
CallStep ==
    \/ LoopTop
    \/ StatStep
    \/ CondStep
    \/ ProbeReadDir
    \/ ProbeWrite
    \/ ProbeUdevadm
    \/ WaitCheck
    \/ Wake
    \/ Return

(***************************************************************************)
(* Two calls of GetDevicePath at once.  backoff, devicePath and err are    *)
(* declared inside GetDevicePath (lines 61-67, 82), the loop variables     *)
(* inside getDevicePathBySerialID and probeVolume, and ctx and volumeID    *)
(* are parameters: every call has its own.  The variables of the module    *)
(* are those of the call that takes steps, parked holds those of the other *)
(* call, and Switch lets the other call go on.  The file system is the one *)
(* thing the calls have in common.                                         *)
(***************************************************************************)
\* a backoff that is one variable of the package
LocalsSharedBackoff ==
    [volumeID |-> volumeID, ctxErr |-> ctxErr, pc |-> pc,
     prefixIdx |-> prefixIdx, condPath |-> condPath,
     condErr |-> condErr, condOk |-> condOk, devicePath |-> devicePath,
     waitErr |-> waitErr, retPath |-> retPath, retErr |-> retErr, scan |-> scan,
     statLog |-> statLog, okStats |-> okStats, seen |-> seen, nProbes |-> nProbes,
     nStats |-> nStats, nRescans |-> nRescans, nTimers |-> nTimers,
     nSleeps |-> nSleeps, firstCheck |-> firstCheck, probeStable |-> probeStable]

\* the parameters and local variables of the call that takes steps
Locals ==
    [volumeID |-> volumeID, ctxErr |-> ctxErr, pc |-> pc, steps |-> steps,
     duration |-> duration, prefixIdx |-> prefixIdx, condPath |-> condPath,
     condErr |-> condErr, condOk |-> condOk, devicePath |-> devicePath,
     waitErr |-> waitErr, retPath |-> retPath, retErr |-> retErr, scan |-> scan,
     statLog |-> statLog, okStats |-> okStats, seen |-> seen, nProbes |-> nProbes,
     nStats |-> nStats, nRescans |-> nRescans, nTimers |-> nTimers,
     nSleeps |-> nSleeps, firstCheck |-> firstCheck, probeStable |-> probeStable]

\* a local of the other call is in parked; a variable the calls share is not
Saved(name, shared) == IF name \in DOMAIN parked THEN parked[name] ELSE shared

\* what a call has of its budget, its delay and its result
Progress ==
    [steps |-> steps, duration |-> duration, devicePath |-> devicePath,
     waitErr |-> waitErr, retPath |-> retPath, retErr |-> retErr]

\* the scheduler runs the other call
Switch ==
    /\ parked # NoCall
    /\ parked' = Locals
    /\ snap' = Progress
    /\ running' = 3 - running
    /\ volumeID' = Saved("volumeID", volumeID)
    /\ ctxErr' = Saved("ctxErr", ctxErr)
    /\ pc' = Saved("pc", pc)
    /\ steps' = Saved("steps", steps)
    /\ duration' = Saved("duration", duration)
    /\ prefixIdx' = Saved("prefixIdx", prefixIdx)
    /\ condPath' = Saved("condPath", condPath)
    /\ condErr' = Saved("condErr", condErr)
    /\ condOk' = Saved("condOk", condOk)
    /\ devicePath' = Saved("devicePath", devicePath)
    /\ waitErr' = Saved("waitErr", waitErr)
    /\ retPath' = Saved("retPath", retPath)
    /\ retErr' = Saved("retErr", retErr)
    /\ scan' = Saved("scan", scan)
    /\ statLog' = Saved("statLog", statLog)
    /\ okStats' = Saved("okStats", okStats)
    /\ seen' = Saved("seen", seen)
    /\ nProbes' = Saved("nProbes", nProbes)
    /\ nStats' = Saved("nStats", nStats)
    /\ nRescans' = Saved("nRescans", nRescans)
    /\ nTimers' = Saved("nTimers", nTimers)
    /\ nSleeps' = Saved("nSleeps", nSleeps)
    /\ firstCheck' = Saved("firstCheck", firstCheck)
    /\ probeStable' = Saved("probeStable", probeStable)
    /\ UNCHANGED <<fs, serialVars>>

\* the volume identifiers of two calls at once: the same one, and two
VolumePairs == {<<VolShort, VolShort>>, <<VolShort, VolDots>>}

\* two calls begin, the second with a context that may be cancelled already;
\* neither has taken a step
TwoInit ==
    /\ \E pair \in VolumePairs :
          /\ volumeID = pair[1]
          /\ fs \in [CandidatePaths(pair[1]) \cup CandidatePaths(pair[2]) -> StatResults]
          /\ ResolverStart
          /\ \E c \in {Nil, Canceled} :
                parked = [Locals EXCEPT !.volumeID = pair[2], !.ctxErr = c]
    /\ running = 1
    /\ snap = Progress
    /\ uuid = << >>
    /\ serial = << >>
    /\ translated = FALSE

\* the calls take their steps in any order, on a file system that is left alone
TwoNext == Switch \/ CallStep

SpecTwo == TwoInit /\ [][TwoNext]_vars

(***************************************************************************)
(* diskUUIDToSerial on its own: the inputs are the identifier of the       *)
(* documented example and strings of every length up to MaxUUIDLen with    *)
(* hyphens at regular distances (none, all, and every gap-th byte).        *)
(***************************************************************************)
HexDigits == <<"0", "1", "2", "3", "4", "5", "6", "7", "8", "9",
               "a", "b", "c", "d", "e", "f">>

\* "1234-5678-9abc-def0-1111"
ExampleUUID ==
    <<"1", "2", "3", "4", "-", "5", "6", "7", "8", "-", "9", "a", "b", "c", "-",
      "d", "e", "f", "0", "-", "1", "1", "1", "1">>

GenUUID(len, gap, off) ==
    [p \in 1..len |->
        IF gap > 0 /\ (p + off) % gap = 0 THEN "-" ELSE HexDigits[((p - 1) % 16) + 1]]

UUIDInputs ==
    {ExampleUUID} \cup
    {GenUUID(len, gap, off) : len \in 0..MaxUUIDLen, gap \in 0..MaxGap, off \in 0..MaxGap}

SerialInit ==
    /\ volumeID = VolShort
    /\ fs = [p \in CandidatePaths(VolShort) |-> "ENOENT"]
    /\ ResolverStart
    /\ OneCall
    /\ uuid \in UUIDInputs
    /\ serial = << >>
    /\ translated = FALSE

\* serial := diskUUIDToSerial(uuid)
Translate ==
    /\ ~translated
    /\ serial' = diskUUIDToSerial(uuid)
    /\ translated' = TRUE
    /\ UNCHANGED <<volumeID, ctxErr, fs, callVars, histVars, probeStable, uuid,
                   otherVars>>

SerialNext == Translate

SpecSerial == SerialInit /\ [][SerialNext]_vars

(***************************************************************************)
(* Properties of GetDevicePath.                                            *)
(***************************************************************************)
Done == pc = "done"

\* the candidate path the claims name for the prefix at position idx of the
\* fixed order "virtio-", "scsi-", "scsi-0QEMU_QEMU_HARDDISK_"
PriorityOrder ==
    << <<"v", "i", "r", "t", "i", "o", "-">>,
       <<"s", "c", "s", "i", "-">>,
       <<"s", "c", "s", "i", "-", "0", "Q", "E", "M", "U", "_", "Q", "E", "M", "U", "_",
         "H", "A", "R", "D", "D", "I", "S", "K", "_">> >>
Candidate(idx) == Join(diskIDPath, PriorityOrder[idx] \o diskUUIDToSerial(volumeID))

LogEntries == {statLog[k] : k \in 1..Len(statLog)}

CountersUnchanged ==
    /\ nProbes' = nProbes
    /\ nStats' = nStats
    /\ nRescans' = nRescans
    /\ nTimers' = nTimers
    /\ nSleeps' = nSleeps

\* C1: a path is returned with a nil error only if a stat of that very path
\* succeeded in this call; a call that ends by cancellation, deadline expiry
\* or exhaustion of the schedule returns no path.
ReturnedPathWasVerified ==
    Done =>
        /\ (retErr = Nil => retPath # << >> /\ retPath \in okStats)
        /\ (retPath # << >> => retErr = Nil)
        /\ (Interrupted(waitErr) => retPath = << >> /\ retErr # Nil)

\* C1 witness: a device that appeared after a retry is returned
VerifiedPathReturnedAfterRetry ==
    Done /\ retErr = Nil /\ retPath \in okStats /\ nSleeps >= 1

\* C2: a stat error other than "does not exist" is what GetDevicePath returns,
\* and the "device path was empty" error is returned only when the loop
\* reported success with an empty path.
HardErrorIsReturned ==
    Done =>
        /\ (condErr.kind = "PathError" => retErr = condErr)
        /\ (retErr = EmptyResult(volumeID) => waitErr = Nil /\ condOk)

\* C3: once a stat has failed with an error other than "does not exist", the
\* call makes no further stat, rescan or sleep, and it returns a failure and
\* no path.
NoRetryAfterHardError ==
    [][ "EACCES" \in seen =>
          /\ CountersUnchanged
          /\ pc' \in {"cond", "check", "ret", "done"}
          /\ (pc' = "done" => retPath' = << >> /\ retErr' # Nil) ]_vars

\* C3 witness: the hard error came at a later attempt and the call has failed
HardErrorAtLaterAttempt ==
    Done /\ "EACCES" \in seen /\ nProbes >= 2 /\ nSleeps >= 1
         /\ retPath = << >> /\ retErr # Nil

\* C4: when no stat of the call found anything but "does not exist", the call
\* returns no path and the error "failed to find device ... within the
\* alloted time" of its volumeID, whether the context was cancelled, its
\* deadline expired or the schedule was exhausted.
NotFoundIsTimeout ==
    (Done /\ seen \subseteq {"ENOENT"}) =>
        /\ retPath = << >>
        /\ retErr = NotFoundTimeout(volumeID)
        /\ waitErr \in {Canceled, DeadlineExceeded, ErrWaitTimeout}

\* C4 witness: the schedule is exhausted after 15 probes of three candidates
ScheduleExhausted ==
    Done /\ seen = {"ENOENT"} /\ waitErr = ErrWaitTimeout /\ ctxErr = Nil
         /\ nProbes = 15 /\ retErr = NotFoundTimeout(volumeID)

\* C5 as stated: if a candidate exists when the first stat of the call is
\* made, the call returns a candidate successfully, with no rescan and no
\* backoff sleep.
ExistingAtFirstCheckIsReturned ==
    (Done /\ firstCheck) =>
        /\ retErr = Nil
        /\ retPath \in {Candidate(idx) : idx \in 1..3}
        /\ nRescans = 0
        /\ nTimers = 0

\* C5 amended: if a stat of the first probe reports that its candidate
\* exists, the call goes on to return that path successfully: probeVolume is
\* never called and no backoff sleep is begun.
FoundAtFirstProbeIsReturned ==
    (nProbes = 1 /\ \E e \in LogEntries : e.res = "ok") =>
        /\ statLog[Len(statLog)].res = "ok"
        /\ nRescans = 0
        /\ nTimers = 0
        /\ pc \in {"cond", "check", "ret", "done"}
        /\ scan = NoScan
        /\ (Done => retErr = Nil /\ retPath = statLog[Len(statLog)].path)

\* C5 witness: the second candidate is found at the first probe and returned
SecondCandidateFoundAtOnce ==
    Done /\ nProbes = 1 /\ Len(statLog) = 2 /\ statLog[2].res = "ok"
         /\ retErr = Nil /\ retPath = Candidate(2) /\ nRescans = 0 /\ nTimers = 0

RescanFailuresAreIgnored ==
    [][ /\ (pc \in {"readdir", "write", "udevadm"} =>
              /\ steps' = steps
              /\ waitErr' = waitErr
              /\ retErr' = retErr
              /\ pc' \in {"readdir", "write", "udevadm", "check"}
              /\ (pc' = "check" => ~condOk' /\ condErr' = Nil))
        /\ (pc = "check" /\ scan.logged > 0 /\ steps > 1 /\ ctxErr = Nil =>
              pc' \in {"check", "sleep"} /\ steps' \in {steps, steps - 1})
        /\ (pc' = "done" =>
              retErr' \in {Nil, NotFoundTimeout(volumeID), EmptyResult(volumeID)})
      ]_vars

\* C9 witness: the listing succeeded, every write and udevadm failed, and the
\* call sleeps before its next attempt
SleepAfterFailedRescan ==
    pc = "check" /\ scan.hosts >= 1 /\ scan.logged = scan.hosts + 1
                 /\ ~condOk /\ condErr = Nil /\ steps > 1 /\ nRescans >= 2

\* C10: when the context is cancelled or expired as a backoff sleep would
\* begin or while it lasts, the sleep does not run to completion, the call
\* makes no further stat or rescan, and it returns the timeout failure.
SleepIsCancellable ==
    [][ /\ ((ctxErr # Nil /\ (pc = "sleep" \/ (pc = "check" /\ condErr = Nil /\ ~condOk))) =>
              /\ nProbes' = nProbes /\ nStats' = nStats
              /\ nRescans' = nRescans /\ nSleeps' = nSleeps
              /\ pc' \in {pc, "ret"}
              /\ (pc' = "ret" => Interrupted(waitErr')))
        /\ (pc \in {"ret", "done"} => CountersUnchanged /\ pc' \in {"ret", "done"})
        /\ ((pc' = "done" /\ Interrupted(waitErr')) =>
              retPath' = << >> /\ retErr' = NotFoundTimeout(volumeID))
      ]_vars

\* C10 witness: a sleep was begun and not completed, and the call has timed out
SleepCutShort ==
    Done /\ waitErr = DeadlineExceeded /\ nTimers = nSleeps + 1 /\ nSleeps >= 1
         /\ retErr = NotFoundTimeout(volumeID)

(***************************************************************************)
(* Properties of diskUUIDToSerial.                                         *)
(***************************************************************************)
NotHyphen(c) == c # "-"
Stripped == SelectSeq(uuid, NotHyphen)

\* C7: the serial has at most 20 bytes, none a hyphen; it is the input without
\* its hyphens when that has fewer than 20 bytes, and its first 20 bytes
\* otherwise.
SerialIsStrippedPrefix ==
    translated =>
        /\ Len(serial) <= 20
        /\ \A k \in 1..Len(serial) : serial[k] # "-"
        /\ (Len(Stripped) < 20 => serial = Stripped)
        /\ (Len(Stripped) >= 20 => serial = SubSeq(Stripped, 1, 20))

\* C7 witness: an input with hyphens and more than 20 other bytes is cut
LongInputTruncated ==
    translated /\ Len(Stripped) > 20 /\ Len(uuid) > Len(Stripped) /\ Len(serial) = 20

\* "123456789abcdef01111" and "123456789abcdef0111"
Example20 ==
    <<"1", "2", "3", "4", "5", "6", "7", "8", "9", "a", "b", "c",
      "d", "e", "f", "0", "1", "1", "1", "1">>
Example19 == SubSeq(Example20, 1, 19)

\* C8 as stated: "1234-5678-9abc-def0-1111" without hyphens has 21 bytes and
\* its serial is "123456789abcdef0111".
ExampleIsTruncated ==
    (translated /\ uuid = ExampleUUID) =>
        /\ Len(Stripped) = 21
        /\ serial = Example19

\* C8 amended: "1234-5678-9abc-def0-1111" without hyphens is the 20 bytes
\* "123456789abcdef01111", and that whole string is its serial.
ExampleIsReturnedWhole ==
    (translated /\ uuid = ExampleUUID) =>
        /\ Stripped = Example20
        /\ Len(serial) = 20
        /\ serial = Example20

\* C8 witness: the serial of the example has been computed
ExampleTranslated ==
    translated /\ uuid = ExampleUUID /\ Len(serial) = 20

(***************************************************************************)
(* Further properties of GetDevicePath and probeVolume.                    *)
(***************************************************************************)
LastStat == statLog[Len(statLog)]

\* C12: GetDevicePath returns either a path and a nil error, or no path and
\* an error.
ResultIsPathOrError ==
    Done =>
        \/ retPath # << >> /\ retErr = Nil
        \/ retPath = << >> /\ retErr # Nil

\* C12 witness: the loop was not interrupted and devicePath is empty
EmptyDevicePathFails ==
    Done /\ ~Interrupted(waitErr) /\ devicePath = << >>
         /\ retPath = << >> /\ retErr = EmptyResult(volumeID)

\* C13: when the second probe of a call finds a candidate, exactly one rescan
\* and one completed backoff sleep lie between the two probes and the call
\* returns that path; a probe never begins before the sleep of the attempt
\* before it has completed, and a sleep never begins before the rescan of its
\* attempt has.
SecondProbeFindsAfterRescanAndSleep ==
    /\ nProbes <= nSleeps + 1
    /\ nSleeps <= nTimers
    /\ nTimers <= nRescans
    /\ nRescans <= nProbes
    /\ (nProbes = 2 /\ statLog # << >> /\ LastStat.res = "ok") =>
          /\ nRescans = 1
          /\ nTimers = 1
          /\ nSleeps = 1
          /\ pc \in {"cond", "check", "ret", "done"}
          /\ (Done => retErr = Nil /\ retPath = LastStat.path)

\* C13 witness: nothing at the first probe, a device at the second
FoundAtSecondProbe ==
    Done /\ nProbes = 2 /\ seen = {"ENOENT", "ok"} /\ ctxErr = Nil
         /\ nRescans = 1 /\ nSleeps = 1 /\ retErr = Nil /\ retPath = LastStat.path

\* C14 as stated: every rescan of a call is followed by a backoff sleep, so a
\* call that has returned began as many sleeps as it made rescans.
SleepAfterEveryRescan ==
    Done => nTimers = nRescans

\* C14 amended: every rescan but the one of the 15th attempt is followed by a
\* step of the schedule and a backoff sleep; after the rescan of the 15th
\* attempt the call returns without sleeping.
SleepAfterEveryRescanButLast ==
    /\ steps = 15 - nTimers
    /\ nTimers <= nRescans
    /\ nRescans <= nTimers + 1
    /\ (pc \notin {"check", "ret", "done"} => nTimers = nRescans)
    /\ (pc \in {"ret", "done"} =>
          IF waitErr = ErrWaitTimeout
          THEN nRescans = 15 /\ nTimers = 14 /\ nSleeps = 14
          ELSE nTimers = nRescans)

\* C14 witness: fifteen rescans and fourteen sleeps
NoSleepAfterLastRescan ==
    Done /\ waitErr = ErrWaitTimeout /\ nRescans = 15 /\ nTimers = 14

\* C15: a call makes at most 15 probes of at most three stats each, and the
\* schedule is exhausted only after 15 probes that found nothing.
AtMostFifteenProbes ==
    /\ nProbes <= 15
    /\ Len(statLog) <= 3
    /\ nStats <= 3 * nProbes
    /\ (waitErr = ErrWaitTimeout =>
          nProbes = 15 /\ nStats = 45 /\ nRescans = 15 /\ seen = {"ENOENT"})

\* C15 witness: the loop has just given up after 45 stats
GaveUpAfterFifteenProbes ==
    pc = "ret" /\ waitErr = ErrWaitTimeout /\ nProbes = 15 /\ nStats = 45

\* C16: an invocation of probeVolume writes to the scan file of every listed
\* entry, failed writes or not, and runs udevadm exactly once, whether or not
\* the listing or a write failed.
EveryHostScannedUdevadmOnce ==
    /\ (pc \in {"readdir", "write", "udevadm"} =>
          scan.udev = 0 /\ scan.writes = scan.idx /\ scan.idx <= scan.hosts)
    /\ (pc = "udevadm" =>
          scan.listed /\ scan.writes = scan.hosts /\ (scan.dirErr => scan.hosts = 0))
    /\ ((pc = "check" /\ scan.listed) =>
          scan.udev = 1 /\ scan.writes = scan.hosts /\ (scan.dirErr => scan.writes = 0))

\* C16 witness: every write to two or more entries failed, and udevadm too
AllWritesFailed ==
    pc = "check" /\ ~scan.dirErr /\ scan.hosts >= 2 /\ scan.writes = scan.hosts
                 /\ scan.logged = scan.hosts + 1 /\ scan.udev = 1

\* is path an entry of the directory dir itself
DirectlyInside(path, dir) ==
    /\ Len(path) > Len(dir) + 1
    /\ SubSeq(path, 1, Len(dir) + 1) = dir \o <<"/">>
    /\ \A k \in (Len(dir) + 2)..Len(path) : path[k] # "/"

\* C18: a returned path is "/dev/disk/by-id", "/", one of the three prefixes
\* and the serial of the volumeID, and it is an entry of "/dev/disk/by-id".
ReturnedPathIsConcatenation ==
    (Done /\ retErr = Nil) =>
        /\ \E idx \in 1..3 :
              retPath = diskIDPath \o <<"/">> \o PriorityOrder[idx]
                           \o diskUUIDToSerial(volumeID)
        /\ DirectlyInside(retPath, diskIDPath)

\* C19: the stats of a probe are those of the candidates in the fixed order,
\* every one but the last reported "does not exist", and the probe ends with
\* its last stat: with that path if it exists, with that error if the stat
\* failed otherwise, and with nothing after the third "does not exist".
ProbeStopsAtFirstVerdict ==
    /\ Len(statLog) <= 3
    /\ \A k \in 1..Len(statLog) :
          /\ statLog[k].path = Candidate(k)
          /\ (k < Len(statLog) => statLog[k].res = "ENOENT")
    /\ (pc = "stat" => Len(statLog) = prefixIdx - 1
                       /\ \A k \in 1..Len(statLog) : statLog[k].res = "ENOENT")
    /\ (pc = "cond" =>
          /\ statLog # << >>
          /\ (LastStat.res = "ok" => condPath = LastStat.path /\ condErr = Nil)
          /\ (LastStat.res = "EACCES" =>
                condPath = << >> /\ condErr = PathError("EACCES", LastStat.path))
          /\ (LastStat.res = "ENOENT" =>
                Len(statLog) = 3 /\ condPath = << >> /\ condErr = Nil))

\* C19 witness: the first stat fails hard while the second candidate exists
HardErrorHidesLowerCandidate ==
    pc = "cond" /\ Len(statLog) = 1 /\ LastStat.res = "EACCES"
                /\ Candidate(1) # Candidate(2) /\ fs[Candidate(2)] = "ok"
                /\ condPath = << >> /\ condErr # Nil

\* C20: diskUUIDToSerial applied to a serial returns that serial.
SerialIsIdempotent ==
    translated => diskUUIDToSerial(serial) = serial

\* C20 witness: the serial of a long input with hyphens
LongSerialTranslated ==
    translated /\ Len(uuid) > Len(Stripped) /\ Len(Stripped) >= 20
               /\ Len(serial) = 20 /\ diskUUIDToSerial(serial) = serial

(***************************************************************************)
(* Termination.  Every step of the call (a stat, a step of probeVolume,    *)
(* the end of a wait) completes once it is due: the steps of the call are  *)
(* weakly fair.  Nothing is assumed of the environment.                    *)
(*                                                                         *)
(* Every action of the call is guarded by its value of pc alone and        *)
(* changes pc or a counter, so a step of the call is enabled exactly while *)
(* the call has not returned.  Weak fairness of CallStep, which is         *)
(*     []<>~(ENABLED <<CallStep>>_vars) \/ []<><<CallStep>>_vars,           *)
(* is written with pc = "done" for the first disjunct.                     *)
(***************************************************************************)
CallStepFair == []<>(pc = "done") \/ []<><<CallStep>>_vars

SpecFair == Spec /\ CallStepFair

\* the terminal states of a call
Found == retErr = Nil /\ retPath # << >> /\ waitErr = Nil
TimedOut == retErr = NotFoundTimeout(volumeID) /\ Interrupted(waitErr)
HardError == retErr \notin {Nil, NotFoundTimeout(volumeID)} /\ waitErr.kind = "PathError"

\* C17: every call ends, in exactly one of the states Found, TimedOut and
\* HardError, and a call that has ended makes no stat, rescan or sleep.
CallTerminates ==
    /\ <>Done
    /\ [](Done => Cardinality({k \in {"Found", "TimedOut", "HardError"} :
                                 \/ k = "Found" /\ Found
                                 \/ k = "TimedOut" /\ TimedOut
                                 \/ k = "HardError" /\ HardError}) = 1)
    /\ [][Done => CountersUnchanged /\ pc' = "done"]_vars

\* C17 witness: a call that was cancelled after some attempts has ended
CancelledCallEnded ==
    Done /\ TimedOut /\ waitErr = Canceled /\ nProbes >= 2 /\ ~Found /\ ~HardError

(***************************************************************************)
(* Concurrent calls.                                                       *)
(***************************************************************************)
\* what a call returns, from its volumeID and the stats of its last probe
OutcomeOf(vol, log) ==
    IF log # << >> /\ log[Len(log)].res = "ok"
    THEN [path |-> log[Len(log)].path, err |-> Nil]
    ELSE IF log # << >> /\ log[Len(log)].res # "ENOENT"
    THEN [path |-> << >>, err |-> EmptyResult(vol)]
    ELSE [path |-> << >>, err |-> NotFoundTimeout(vol)]

\* C11: when a call goes on after steps of another call, its step budget, its
\* delay, its devicePath and its result are what they were when it last took a
\* step; and what a call returns follows from its own volumeID and the stat
\* results it observed.
CallsAreIndependent ==
    [][ /\ running' # running => Progress' = snap
        /\ pc' = "done" =>
              [path |-> retPath', err |-> retErr'] = OutcomeOf(volumeID', statLog') ]_vars

\* C11 witness: both calls are asleep between attempts and have made a
\* different number of them
InterleavedCalls ==
    /\ parked # NoCall
    /\ pc = "sleep" /\ parked.pc = "sleep"
    /\ steps < parked.steps /\ parked.steps < BackoffSteps
    /\ duration # parked.duration

====
